---- MODULE Spec2Model ----
(***************************************************************************)
(* Model of LyricsGet: the issue handler's source cascade                  *)
(* (scripts/handle_issue.py: main), the usability gates, the LRCLIB record *)
(* selection, the caption cleaner (lyrics_core.py), the text normalizer   *)
(* and the search disambiguators of the two scrapers (pl.py, uta.py) and   *)
(* Site-B's lyric extraction with its line cleaning (uta.py).              *)
(*                                                                         *)
(* A Python str is a sequence of one-character strings.  Python's None is  *)
(* the one-element sequence None, which no str equals.                     *)
(***************************************************************************)
EXTENDS Integers, Sequences, FiniteSets, TLC

VARIABLES
    artist, title, video_id,      \* parse_issue_body's result
    pc,                           \* position of main in the cascade
    chosen_source,
    y_lyrics,                     \* main's local: the caption adapter's text
    youtube_lyrics, youtube_info,
    lrclib_rec,
    petit_lyrics, petit_meta,
    utaten_lyrics, utaten_meta,
    attempts,                     \* history: the adapter calls main made, in order
    rendered, posted,             \* build_comment_body's branch, comment_to_issue
    call, ret                     \* a single call of a pure function, and its result

mainVars == <<artist, title, video_id, pc, chosen_source, y_lyrics,
              youtube_lyrics, youtube_info, lrclib_rec, petit_lyrics,
              petit_meta, utaten_lyrics, utaten_meta, attempts, rendered,
              posted>>
fnVars == <<call, ret>>
vars == <<mainVars, fnVars>>

----------------------------------------------------------------------------
(* Bounds of the model *)

MaxSrtLines == 3
MaxRecs == 2
MaxHits == 2
MaxToks == 3
MaxPageLines == 3
MaxKeyLen == 3

----------------------------------------------------------------------------
(* Python values *)

None == <<"None">>
NUM == <<"Num">>
SP == " "
NL == "\n"
IDSP == "IDSP"
Whitespace == {SP, NL, IDSP}
Digits == {"0", "1", "2", "3"}

Truthy(s) == s # None /\ s # <<>>
OrEmpty(s) == IF Truthy(s) THEN s ELSE <<>>

Min(S) == CHOOSE x \in S : \A y \in S : x <= y
Max(S) == CHOOSE x \in S : \A y \in S : x >= y
Abs(i) == IF i < 0 THEN -i ELSE i

Rep(c, n) == [i \in 1..n |-> c]
T1(n) == Rep("x", n)
T2(a, b) == Rep("x", a) \o <<NL>> \o Rep("y", b)

RECURSIVE lstrip(_)
lstrip(s) ==
    IF s # <<>> /\ s[1] \in Whitespace THEN lstrip(Tail(s)) ELSE s

RECURSIVE rstrip(_)
rstrip(s) ==
    IF s # <<>> /\ s[Len(s)] \in Whitespace
    THEN rstrip(SubSeq(s, 1, Len(s) - 1)) ELSE s

strip(s) == rstrip(lstrip(s))

RECURSIVE splitlines(_)
splitlines(s) ==
    IF s = <<>> THEN <<>>
    ELSE LET nl == {i \in 1..Len(s) : s[i] = NL}
         IN  IF nl = {} THEN <<s>>
             ELSE <<SubSeq(s, 1, Min(nl) - 1)>>
                  \o splitlines(SubSeq(s, Min(nl) + 1, Len(s)))

RECURSIVE join(_, _)
join(sep, ls) ==
    IF ls = <<>> THEN <<>>
    ELSE IF Len(ls) = 1 THEN ls[1]
    ELSE ls[1] \o sep \o join(sep, Tail(ls))

Contains(s, sub) ==
    \E i \in 1..(Len(s) - Len(sub) + 1) : SubSeq(s, i, i + Len(sub) - 1) = sub

lowerChar(c) ==
    CASE c = "A" -> "a" [] c = "B" -> "b" [] c = "X" -> "x" [] OTHER -> c
lower(s) == [i \in 1..Len(s) |-> lowerChar(s[i])]

isdigit(s) == s # <<>> /\ \A i \in 1..Len(s) : s[i] \in Digits

IsNonBlank(ln) == strip(ln) # <<>>

----------------------------------------------------------------------------
(* The usability gates *)

MinGateLines == 2
MinGateChars == 20

_looks_like_lyrics_noCharCheck(text) ==
    LET t == strip(OrEmpty(text))
        lines == SelectSeq(splitlines(t), IsNonBlank)
    IN  t # <<>> /\ Len(lines) >= MinGateLines

_looks_like_lyrics_noLineCheck(text) ==
    LET t == strip(OrEmpty(text))
    IN  t # <<>> /\ Len(t) >= MinGateChars

_looks_like_lyrics(text) ==
    LET t == strip(OrEmpty(text))
        lines == SelectSeq(splitlines(t), IsNonBlank)
    IN  IF t = <<>> THEN FALSE
        ELSE IF Len(lines) < MinGateLines THEN FALSE
        ELSE IF Len(t) < MinGateChars THEN FALSE
        ELSE TRUE

----------------------------------------------------------------------------
(* lyrics_core.py: the caption adapter *)

ARROW == <<"-", "-", ">">>

IsCaptionText(line) ==
    line # <<>> /\ ~isdigit(line) /\ ~Contains(line, ARROW)

RECURSIVE dropRepeats(_, _)
dropRepeats(lines, last) ==
    IF lines = <<>> THEN <<>>
    ELSE IF lines[1] = last THEN dropRepeats(Tail(lines), last)
    ELSE <<lines[1]>> \o dropRepeats(Tail(lines), lines[1])

_srt_to_lyrics_noMerge(file) ==
    join(<<NL>>, SelectSeq([i \in 1..Len(file) |-> strip(file[i])], IsCaptionText))

_srt_to_lyrics(file) ==
    LET lines == SelectSeq([i \in 1..Len(file) |-> strip(file[i])], IsCaptionText)
        merged == dropRepeats(lines, None)
    IN  join(<<NL>>, merged)

\* The raw lines a downloaded subtitle file is made of.
SrtLineChoices ==
    { <<SP>>, <<"1">>, <<"1", SP>> \o ARROW \o <<SP, "2">>,
      Rep("x", 10) \o <<SP>>, Rep("y", 9), Rep("z", 9), Rep("w", 20) }

RECURSIVE SeqsUpTo(_, _)
SeqsUpTo(S, n) ==
    IF n = 0 THEN {<<>>}
    ELSE LET shorter == SeqsUpTo(S, n - 1)
         IN  shorter \cup {Append(q, x) : q \in {r \in shorter : Len(r) = n - 1}, x \in S}

SrtFiles == SeqsUpTo(SrtLineChoices, MaxSrtLines)

\* _download_auto_sub_srt: no .srt file produced (it raises), or a file.
DownloadOutcomes == {[srt |-> FALSE, file |-> <<>>]}
                    \cup {[srt |-> TRUE, file |-> f] : f \in SrtFiles}

register_lyrics_from_request(a, t, vid, dl) ==
    IF ~dl.srt
    THEN [raised |-> TRUE, lyrics |-> None, info |-> None]
    ELSE [raised |-> FALSE, lyrics |-> _srt_to_lyrics(dl.file), info |-> vid]

----------------------------------------------------------------------------
(* scripts/handle_issue.py: the LRCLIB adapter *)

ScoreBase == 100

\* unicodedata.normalize("NFKC", .) maps the ideographic space to a space.
nfkc(s) == [i \in 1..Len(s) |-> IF s[i] = IDSP THEN SP ELSE s[i]]

RECURSIVE collapseSpaces(_)
collapseSpaces(s) ==
    IF s = <<>> THEN <<>>
    ELSE IF s[1] \in Whitespace
    THEN LET rest == collapseSpaces(Tail(s))
         IN  IF rest # <<>> /\ rest[1] = SP THEN rest ELSE <<SP>> \o rest
    ELSE <<s[1]>> \o collapseSpaces(Tail(s))

_nf_lrc(s) == lower(strip(collapseSpaces(nfkc(OrEmpty(s)))))

NoneRec == [kind |-> "None", trackName |-> None, artistName |-> None,
            plainLyrics |-> None, syncedLyrics |-> None]

IsNoneRec(rec) == rec.kind = "None"

\* score(rec) raises when rec is not a dict (rec.get does not exist).
scoreRaises(rec) == rec.kind # "dict"

score(a, t, rec) ==
    (IF Truthy(t) /\ Truthy(rec.trackName)
     THEN 2 * (ScoreBase - Abs(Len(_nf_lrc(t)) - Len(_nf_lrc(rec.trackName))))
     ELSE 0)
    +
    (IF Truthy(a) /\ Truthy(rec.artistName)
     THEN 2 * (ScoreBase - Abs(Len(_nf_lrc(a)) - Len(_nf_lrc(rec.artistName))))
     ELSE 0)

\* Python's max(data, key=score): the first element with the greatest key.
RECURSIVE maxByScoreFrom(_, _, _, _, _)
maxByScoreFrom(a, t, data, i, best) ==
    IF i > Len(data) THEN data[best]
    ELSE IF score(a, t, data[i]) > score(a, t, data[best])
    THEN maxByScoreFrom(a, t, data, i + 1, i)
    ELSE maxByScoreFrom(a, t, data, i + 1, best)

\* the last element with the greatest key
RECURSIVE maxByScoreLastFrom(_, _, _, _, _)
maxByScoreLastFrom(a, t, data, i, best) ==
    IF i > Len(data) THEN data[best]
    ELSE IF score(a, t, data[i]) >= score(a, t, data[best])
    THEN maxByScoreLastFrom(a, t, data, i + 1, i)
    ELSE maxByScoreLastFrom(a, t, data, i + 1, best)

maxByScore_Last(a, t, data) == maxByScoreLastFrom(a, t, data, 2, 1)

maxByScore(a, t, data) == maxByScoreFrom(a, t, data, 2, 1)

\* resp: the HTTP exchange.  sent says whether a request was issued.
search_lrclib_by_artist_title(a, t, resp) ==
    IF ~Truthy(a) /\ ~Truthy(t)
    THEN [raised |-> FALSE, sent |-> FALSE, rec |-> NoneRec]
    ELSE IF resp.kind # "list" \/ resp.data = <<>>
    THEN [raised |-> FALSE, sent |-> TRUE, rec |-> NoneRec]
    ELSE IF \E i \in 1..Len(resp.data) : scoreRaises(resp.data[i])
    THEN [raised |-> TRUE, sent |-> TRUE, rec |-> NoneRec]
    ELSE [raised |-> FALSE, sent |-> TRUE, rec |-> maxByScore(a, t, resp.data)]

\* A dict with no keys is falsy; the model's dicts are empty when all four
\* fields are absent.
IsEmptyDict(rec) ==
    /\ rec.kind = "dict"
    /\ rec.trackName = None /\ rec.artistName = None
    /\ rec.plainLyrics = None /\ rec.syncedLyrics = None

RecFalsy(rec) == IsNoneRec(rec) \/ IsEmptyDict(rec)

\* (x or "").strip() raises when x is a truthy value that is not a str.
lyricsFieldRaises(rec) ==
    ~RecFalsy(rec) /\ (rec.plainLyrics = NUM \/ rec.syncedLyrics = NUM)

_lrclib_has_lyrics_anyRecord(rec) == ~RecFalsy(rec)

_lrclib_has_lyrics(rec) ==
    IF RecFalsy(rec) THEN FALSE
    ELSE LET plain == strip(OrEmpty(rec.plainLyrics))
             synced == strip(OrEmpty(rec.syncedLyrics))
         IN  plain # <<>> \/ synced # <<>>

----------------------------------------------------------------------------
(* pl.py and uta.py: the text normalizer and the search disambiguators *)

Punctuation == {"-", "!"}

IsNotSpace(c) == c \notin Whitespace
IsNotPunct(c) == c \notin Punctuation

_normalize_key_keepInnerSpace(s) ==
    IF ~Truthy(s) THEN <<>> ELSE SelectSeq(lower(strip(s)), IsNotPunct)

_normalize_key(s) ==
    IF ~Truthy(s) THEN <<>>
    ELSE LET s1 == lower(strip(s))
             s2 == [i \in 1..Len(s1) |-> IF s1[i] = IDSP THEN SP ELSE s1[i]]
             s3 == SelectSeq(s2, IsNotSpace)
         IN  SelectSeq(s3, IsNotPunct)

NoneHit == [lyrics_id |-> 0, title |-> None, artist |-> None]

\* pl.choose_best_hit's exact list
plExact(hits, req_title, req_artist) ==
    LET nt == _normalize_key(req_title)
        na == _normalize_key(req_artist)
        ok(h) == /\ (IF nt # <<>> THEN _normalize_key(h.title) = nt ELSE TRUE)
                 /\ (IF na # <<>> THEN _normalize_key(h.artist) = na ELSE TRUE)
    IN  SelectSeq(hits, ok)

\* max(cand, key=lambda x: x.lyrics_id): the first element with the greatest id
RECURSIVE maxByIdFrom(_, _, _)
maxByIdFrom(cand, i, best) ==
    IF i > Len(cand) THEN cand[best]
    ELSE IF cand[i].lyrics_id > cand[best].lyrics_id
    THEN maxByIdFrom(cand, i + 1, i)
    ELSE maxByIdFrom(cand, i + 1, best)

choose_best_hit_allHits(hits, req_title, req_artist) ==
    IF hits = <<>> THEN NoneHit ELSE maxByIdFrom(hits, 2, 1)

choose_best_hit(hits, req_title, req_artist) ==
    IF hits = <<>> THEN NoneHit
    ELSE LET exact == plExact(hits, req_title, req_artist)
             cand == IF exact # <<>> THEN exact ELSE hits
         IN  maxByIdFrom(cand, 2, 1)

\* uta.choose_one's exact list (the artist may be contained: "feat.")
utaExact(hits, req_title, req_artist) ==
    LET nt == _normalize_key(req_title)
        na == _normalize_key(req_artist)
        ok(h) == /\ (IF nt # <<>> THEN _normalize_key(h.title) = nt ELSE TRUE)
                 /\ (IF na # <<>> THEN Contains(_normalize_key(h.artist), na) ELSE TRUE)
    IN  SelectSeq(hits, ok)

NoneUtaHit == [url |-> 0, title |-> None, artist |-> None]

choose_one_lastExact(hits, req_title, req_artist) ==
    IF hits = <<>> THEN NoneUtaHit
    ELSE LET exact == utaExact(hits, req_title, req_artist)
         IN  IF exact # <<>> THEN exact[Len(exact)] ELSE hits[1]

choose_one(hits, req_title, req_artist) ==
    IF hits = <<>> THEN NoneUtaHit
    ELSE LET exact == utaExact(hits, req_title, req_artist)
         IN  IF exact # <<>> THEN exact[1] ELSE hits[1]

----------------------------------------------------------------------------
(* pl.py: the Site-A adapter *)

MinExtractChars == 30

LABEL == <<"B">>

\* A lyric page: the texts of the elements the selectors match (in selector
\* order), the text chunks after the bookmark label up to the stop label
\* (None: no bookmark label), and the rest of the visible text.
pageFullText(page) ==
    LET parts == page.containers
                 \o (IF page.chunks # None THEN <<LABEL>> \o page.chunks ELSE <<>>)
                 \o <<page.rest>>
    IN  join(<<NL>>, SelectSeq(parts, IsNonBlank))

\* re.sub(r"\n{3,}", "\n\n", text)
RECURSIVE collapseNewlines(_)
collapseNewlines(s) ==
    IF Len(s) >= 3 /\ s[1] = NL /\ s[2] = NL /\ s[3] = NL
    THEN collapseNewlines(Tail(s))
    ELSE IF s = <<>> THEN <<>>
    ELSE <<s[1]>> \o collapseNewlines(Tail(s))

extract_lyrics_text(page) ==
    LET long == {i \in 1..Len(page.containers) :
                    Len(page.containers[i]) > MinExtractChars}
        text == IF page.chunks = None THEN <<>>
                ELSE collapseNewlines(strip(join(<<NL>>, page.chunks)))
    IN  IF long # {} THEN page.containers[Min(long)]
        ELSE IF page.chunks # None /\ Len(text) > MinExtractChars THEN text
        ELSE pageFullText(page)

\* env: the search exchange (redirected to 404.php, an HTTP error, or the
\* parsed hits) and the page exchange.
fetch_petitlyrics(t, a, env) ==
    IF env.search # "ok"
    THEN [raised |-> TRUE, lyrics |-> None, meta |-> NoneHit]
    ELSE LET best == choose_best_hit(env.hits, t, a)
         IN  IF best = NoneHit
             THEN [raised |-> TRUE, lyrics |-> None, meta |-> NoneHit]
             ELSE IF env.fetch # "ok"
             THEN [raised |-> TRUE, lyrics |-> None, meta |-> NoneHit]
             ELSE [raised |-> FALSE, lyrics |-> extract_lyrics_text(env.page),
                   meta |-> best]

----------------------------------------------------------------------------
(* uta.py: the Site-B adapter *)

MinUtatenChars == 50
MaxFuriganaLen == 12
MinLatinTotal == 12
MinLatinChunks == 4
MaxJunkLen == 2

\* Characters: ideographs (U+4E00..U+9FFF) are written [..], kana
\* (U+3040..U+30FF, with the long-vowel mark) <..>, and the letters A-Z, a-z
\* as themselves.
Kanji == {"[saku]", "[jitsu]", "[jin]", "[satsu]", "[ka]", "[shi]"}
Kana == {"<ki>", "<no>", "<u>", "<hi>", "<to>", "<wo>", "<ko>", "<ro>",
         "<shi>", "<ta>", "<n>", "<da>", "<->"}
Latin == {"a", "b", "c", "d", "e", "f", "l", "o", "r", "w", "x", "y", "z",
          "A", "B", "H", "W", "X"}

has_kanji(s) == \E i \in 1..Len(s) : s[i] \in Kanji
has_japanese(s) == \E i \in 1..Len(s) : s[i] \in Kana \cup Kanji
is_kana_only(s) == s # <<>> /\ \A i \in 1..Len(s) : s[i] \in Kana

\* _RE_LATIN_ONLY.match(tok)
latin_only(tok) == tok # <<>> /\ \A i \in 1..Len(tok) : tok[i] \in Latin

\* _RE_LATIN_SEQ.findall(line): the lengths of the runs of two or more
\* letters, each run taken as long as it goes.  run: the letters of the run
\* being read.
RECURSIVE latinChunksFrom(_, _)
latinChunksFrom(s, run) ==
    LET closed == IF run >= 2 THEN <<run>> ELSE <<>>
    IN  IF s = <<>> THEN closed
        ELSE IF s[1] \in Latin THEN latinChunksFrom(Tail(s), run + 1)
        ELSE closed \o latinChunksFrom(Tail(s), 0)

RECURSIVE sum(_)
sum(ns) == IF ns = <<>> THEN 0 ELSE ns[1] + sum(Tail(ns))

latin_heavy(line) ==
    LET chunks == latinChunksFrom(line, 0)
        total == sum(chunks)
    IN  total >= MinLatinTotal /\ Len(chunks) >= MinLatinChunks

\* str.split(" "): the pieces between single spaces, empty pieces included.
RECURSIVE split(_)
split(s) ==
    LET sp == {i \in 1..Len(s) : s[i] = SP}
    IN  IF sp = {} THEN <<s>>
        ELSE <<SubSeq(s, 1, Min(sp) - 1)>> \o split(SubSeq(s, Min(sp) + 1, Len(s)))

RECURSIVE concat(_)
concat(ts) == IF ts = <<>> THEN <<>> ELSE ts[1] \o concat(Tail(ts))

\* The tokens clean_line_drop_furigana_romaji scans.
cleanToks(line) == split(strip(collapseSpaces(line)))

\* One pass of the loop body over tok; st holds the locals out and
\* prev_has_kanji.
cleanStep_noLengthLimit(st, tok) ==
    IF tok = <<>> THEN st
    ELSE IF latin_only(tok)
    THEN [out |-> st.out, prev_has_kanji |-> FALSE]
    ELSE IF st.prev_has_kanji /\ is_kana_only(tok)
    THEN [out |-> st.out, prev_has_kanji |-> FALSE]
    ELSE [out |-> Append(st.out, tok), prev_has_kanji |-> has_kanji(tok)]

cleanStep_keepFlagOnDrop(st, tok) ==
    IF tok = <<>> THEN st
    ELSE IF latin_only(tok) THEN st
    ELSE IF st.prev_has_kanji /\ is_kana_only(tok) /\ Len(tok) <= MaxFuriganaLen
    THEN st
    ELSE [out |-> Append(st.out, tok), prev_has_kanji |-> has_kanji(tok)]

cleanStep(st, tok) ==
    IF tok = <<>> THEN st
    ELSE IF latin_only(tok)
    THEN [out |-> st.out, prev_has_kanji |-> FALSE]
    ELSE IF st.prev_has_kanji /\ is_kana_only(tok) /\ Len(tok) <= MaxFuriganaLen
    THEN [out |-> st.out, prev_has_kanji |-> FALSE]
    ELSE [out |-> Append(st.out, tok), prev_has_kanji |-> has_kanji(tok)]

RECURSIVE cleanScan(_, _)
cleanScan(toks, st) ==
    IF toks = <<>> THEN st ELSE cleanScan(Tail(toks), cleanStep(st, toks[1]))

CleanStart == [out |-> <<>>, prev_has_kanji |-> FALSE]

clean_line_drop_furigana_romaji(line) ==
    strip(concat(cleanScan(cleanToks(line), CleanStart).out))

\* A lyric page as extract_lyrics_only walks it: whether a start marker was
\* found, and the lines of the text between the marker and the stop pattern
\* (text nodes joined by a space, broken at <br>).
NoUtaPage == [start |-> FALSE, lines |-> <<>>]

JunkExact == {<<"[ka]", "[shi]">>}

\* The loop over the lines: the lines it appends to out_lines.
RECURSIVE outLines_skipHeavy(_)
outLines_skipHeavy(lines) ==
    IF lines = <<>> THEN <<>>
    ELSE LET ln == lines[1]
             cl == clean_line_drop_furigana_romaji(ln)
         IN  IF ln = <<>> \/ ln \in JunkExact THEN outLines_skipHeavy(Tail(lines))
             ELSE IF latin_heavy(ln) THEN outLines_skipHeavy(Tail(lines))
             ELSE IF cl = <<>> THEN outLines_skipHeavy(Tail(lines))
             ELSE IF Len(cl) <= MaxJunkLen /\ ~has_japanese(cl)
             THEN outLines_skipHeavy(Tail(lines))
             ELSE <<cl>> \o outLines_skipHeavy(Tail(lines))

RECURSIVE outLines(_)
outLines(lines) ==
    IF lines = <<>> THEN <<>>
    ELSE LET ln == lines[1]
             cl == clean_line_drop_furigana_romaji(ln)
         IN  IF ln = <<>> \/ ln \in JunkExact THEN outLines(Tail(lines))
             ELSE IF latin_heavy(ln) THEN <<>>
             ELSE IF cl = <<>> THEN outLines(Tail(lines))
             ELSE IF Len(cl) <= MaxJunkLen /\ ~has_japanese(cl)
             THEN outLines(Tail(lines))
             ELSE <<cl>> \o outLines(Tail(lines))

extract_lyrics_only(page) ==
    IF ~page.start THEN <<>>
    ELSE LET lines == [i \in 1..Len(page.lines) |-> strip(page.lines[i])]
         IN  collapseNewlines(strip(join(<<NL>>, outLines(lines))))

\* env: the search exchange and the page exchange.  extracted is the local
\* lyrics after line 312 (None when the call did not get that far).
fetch_utaten_noMinLength(t, a, env) ==
    IF env.search # "ok"
    THEN [raised |-> TRUE, lyrics |-> None, meta |-> NoneUtaHit, extracted |-> None]
    ELSE LET best == choose_one(env.hits, t, a)
             lyrics == extract_lyrics_only(env.page)
         IN  IF best = NoneUtaHit
             THEN [raised |-> TRUE, lyrics |-> None, meta |-> NoneUtaHit,
                   extracted |-> None]
             ELSE IF env.fetch # "ok"
             THEN [raised |-> TRUE, lyrics |-> None, meta |-> NoneUtaHit,
                   extracted |-> None]
             ELSE [raised |-> FALSE, lyrics |-> lyrics, meta |-> best,
                   extracted |-> lyrics]

fetch_utaten(t, a, env) ==
    IF env.search # "ok"
    THEN [raised |-> TRUE, lyrics |-> None, meta |-> NoneUtaHit, extracted |-> None]
    ELSE LET best == choose_one(env.hits, t, a)
             lyrics == extract_lyrics_only(env.page)
         IN  IF best = NoneUtaHit
             THEN [raised |-> TRUE, lyrics |-> None, meta |-> NoneUtaHit,
                   extracted |-> None]
             ELSE IF env.fetch # "ok"
             THEN [raised |-> TRUE, lyrics |-> None, meta |-> NoneUtaHit,
                   extracted |-> None]
             ELSE IF lyrics = <<>> \/ Len(lyrics) < MinUtatenChars
             THEN [raised |-> TRUE, lyrics |-> None, meta |-> NoneUtaHit,
                   extracted |-> lyrics]
             ELSE [raised |-> FALSE, lyrics |-> lyrics, meta |-> best,
                   extracted |-> lyrics]

----------------------------------------------------------------------------
(* scripts/handle_issue.py: what the cascade's environment can answer *)

ReqArtist == <<"x">>
ReqTitle == <<"a", "b">>
ReqVideo == <<"v">>

\* parse_issue_body: artist and title come from the two sides of one
\* "artist - title" line, so both are set or both are absent.
ParsedRequests ==
    {[artist |-> r[1], title |-> r[2], video_id |-> v] :
        r \in {<<None, None>>, <<ReqArtist, ReqTitle>>}, v \in {None, ReqVideo}}

StrRec == [kind |-> "str", trackName |-> None, artistName |-> None,
           plainLyrics |-> None, syncedLyrics |-> None]
EmptyDict == [kind |-> "dict", trackName |-> None, artistName |-> None,
              plainLyrics |-> None, syncedLyrics |-> None]

CascadeRecs ==
    {StrRec, EmptyDict}
    \cup {[kind |-> "dict", trackName |-> tn, artistName |-> ReqArtist,
           plainLyrics |-> p, syncedLyrics |-> sy] :
            tn \in {<<"a", "b">>},
            p \in {None, <<SP>>, T1(3), NUM},
            sy \in {None, <<>>, T1(2)}}

\* The answer to GET /api/search: a transport or status error, JSON that is
\* not a list, or a list of records.
LrclibResponses ==
    {[kind |-> k, data |-> <<>>] : k \in {"error", "notlist"}}
    \cup {[kind |-> "list", data |-> d] : d \in SeqsUpTo(CascadeRecs, MaxRecs)}

PlHit(id, t, a) == [lyrics_id |-> id, title |-> t, artist |-> a]
UtaHit(u, t, a) == [url |-> u, title |-> t, artist |-> a]

CascadePlHits ==
    { <<>>, <<PlHit(1, ReqTitle, ReqArtist)>>, <<PlHit(1, <<"z">>, None)>>,
      <<PlHit(2, <<"z">>, None), PlHit(1, ReqTitle, ReqArtist)>> }

CascadePages ==
    {[containers |-> c, chunks |-> ch, rest |-> r] :
        c \in {<<>>, <<T1(25)>>, <<T2(15, 15)>>},
        ch \in {None, <<T1(15), T1(15)>>},
        r \in {<<>>, T1(25), T2(12, 12), T2(9, 9), T2(10, 9),
                Rep("x", 10) \o <<NL, SP, NL>> \o Rep("y", 9)}}

PetitEnvs ==
    {[search |-> k, hits |-> <<>>, fetch |-> "ok", page |-> pg] :
        k \in {"404", "httperror"},
        pg \in {[containers |-> <<>>, chunks |-> None, rest |-> <<>>]}}
    \cup {[search |-> "ok", hits |-> h, fetch |-> k, page |-> pg] :
        h \in CascadePlHits, k \in {"404", "httperror"},
        pg \in {[containers |-> <<>>, chunks |-> None, rest |-> <<>>]}}
    \cup {[search |-> "ok", hits |-> h, fetch |-> "ok", page |-> pg] :
        h \in CascadePlHits, pg \in CascadePages}

CascadeUtaHits ==
    { <<>>, <<UtaHit(1, ReqTitle, ReqArtist)>>,
      <<UtaHit(1, <<"z">>, None), UtaHit(2, ReqTitle, ReqArtist)>> }

\* Lines of a lyric page: n kana, and a line of four runs of three letters.
KanaLine(n) == Rep("<ta>", n)
HeavyLine == <<"a", "b", "c", SP, "a", "b", "c", SP, "a", "b", "c", SP, "a", "b", "c">>

\* The pages extract to 0, 49, 50 (one line), 50, 61, 50 and 0 characters.
CascadeUtaPages ==
    {NoUtaPage}
    \cup {[start |-> TRUE, lines |-> ls] :
            ls \in { <<KanaLine(24), KanaLine(24)>>,
                     <<KanaLine(50)>>,
                     <<KanaLine(25), <<SP>>, KanaLine(24) \o <<SP>>>>,
                     <<KanaLine(30), KanaLine(30)>>,
                     <<KanaLine(25), KanaLine(24), HeavyLine, KanaLine(30)>>,
                     <<HeavyLine, KanaLine(30), KanaLine(30)>> }}

UtaEnvs ==
    {[search |-> "httperror", hits |-> <<>>, fetch |-> "ok", page |-> NoUtaPage]}
    \cup {[search |-> "ok", hits |-> h, fetch |-> "httperror", page |-> NoUtaPage] :
        h \in CascadeUtaHits}
    \cup {[search |-> "ok", hits |-> h, fetch |-> "ok", page |-> pg] :
        h \in CascadeUtaHits, pg \in CascadeUtaPages}

----------------------------------------------------------------------------
(* scripts/handle_issue.py: main *)

\* An adapter call of main: its source, how it ended, the number of search
\* results it got (-1: none) and, for Site-B, the length of the text
\* extracted from the page (-1: no page was extracted).
Attempt(src, outcome, n, len) ==
    [src |-> src, outcome |-> outcome, n |-> n, len |-> len]

\* No call: the arguments of every function are at their empty values.
IdleCall == [fn |-> "none", plHits |-> <<>>, utaHits |-> <<>>,
             resp |-> [kind |-> "error", data |-> <<>>],
             req_title |-> None, req_artist |-> None,
             file |-> <<>>, line |-> <<>>, page |-> NoUtaPage, s |-> None]
\* out and prev_has_kanji are the locals of clean_line_drop_furigana_romaji,
\* scanned the number of tokens its loop has taken.
IdleRet == [done |-> FALSE, raised |-> FALSE, plHit |-> NoneHit,
            utaHit |-> NoneUtaHit, rec |-> NoneRec, text |-> <<>>,
            scanned |-> 0, out |-> <<>>, prev_has_kanji |-> FALSE]

MainInit ==
    /\ \E r \in ParsedRequests :
          artist = r.artist /\ title = r.title /\ video_id = r.video_id
    /\ pc = "youtube"
    /\ chosen_source = "none"
    /\ y_lyrics = None
    /\ youtube_lyrics = None /\ youtube_info = None
    /\ lrclib_rec = NoneRec
    /\ petit_lyrics = None /\ petit_meta = NoneHit
    /\ utaten_lyrics = None /\ utaten_meta = NoneUtaHit
    /\ attempts = <<>>
    /\ rendered = "nothing" /\ posted = FALSE

Init == MainInit /\ call = IdleCall /\ ret = IdleRet

\* The conditions under which main calls each adapter.
HasVideoId_Always == TRUE
HasVideoId == Truthy(video_id)

NeedLrclib_Always == TRUE
NeedLrclib == chosen_source # "youtube"

NeedPetitLyrics_OnlyYouTube == chosen_source # "youtube"
NeedPetitLyrics == chosen_source \notin {"youtube", "lrclib"}

NeedUtaTen_Always == TRUE
NeedUtaTen == chosen_source \notin {"youtube", "lrclib", "petitlyrics"}

HasArtistOrTitle == Truthy(artist) \/ Truthy(title)

\* 1) YouTube
Step1_YouTube ==
    /\ pc = "youtube"
    /\ pc' = "lrclib"
    /\ IF HasVideoId
       THEN \E dl \in DownloadOutcomes :
              LET r == register_lyrics_from_request(OrEmpty(artist), OrEmpty(title),
                                                    video_id, dl)
              IN  IF r.raised
                  THEN /\ attempts' = Append(attempts, Attempt("youtube", "raised", -1, -1))
                       /\ UNCHANGED <<chosen_source, y_lyrics, youtube_lyrics,
                                      youtube_info>>
                  ELSE IF _looks_like_lyrics(r.lyrics)
                  THEN /\ chosen_source' = "youtube"
                       /\ y_lyrics' = r.lyrics
                       /\ youtube_lyrics' = r.lyrics
                       /\ youtube_info' = r.info
                       /\ attempts' = Append(attempts, Attempt("youtube", "usable", -1, -1))
                  ELSE /\ y_lyrics' = r.lyrics
                       /\ attempts' = Append(attempts, Attempt("youtube", "unusable", -1, -1))
                       /\ UNCHANGED <<chosen_source, youtube_lyrics, youtube_info>>
       ELSE UNCHANGED <<chosen_source, y_lyrics, youtube_lyrics, youtube_info,
                        attempts>>
    /\ UNCHANGED <<artist, title, video_id, lrclib_rec, petit_lyrics, petit_meta,
                   utaten_lyrics, utaten_meta, rendered, posted>>
    /\ UNCHANGED fnVars

\* 2) LRCLIB: the call and the gate are outside any try block, so a raise
\* here leaves main.
Step2_Lrclib ==
    /\ pc = "lrclib"
    /\ IF NeedLrclib
       THEN \E resp \in LrclibResponses :
              LET r == search_lrclib_by_artist_title(artist, title, resp)
                  n == IF r.sent /\ resp.kind = "list" THEN Len(resp.data) ELSE -1
              IN  IF r.raised
                  THEN /\ pc' = "crashed"
                       /\ attempts' = Append(attempts, Attempt("lrclib", "raised", n, -1))
                       /\ UNCHANGED <<chosen_source, lrclib_rec>>
                  ELSE IF lyricsFieldRaises(r.rec)
                  THEN /\ pc' = "crashed"
                       /\ lrclib_rec' = r.rec
                       /\ attempts' = Append(attempts, Attempt("lrclib", "raised", n, -1))
                       /\ UNCHANGED chosen_source
                  ELSE IF _lrclib_has_lyrics(r.rec)
                  THEN /\ pc' = "petitlyrics"
                       /\ lrclib_rec' = r.rec
                       /\ chosen_source' = "lrclib"
                       /\ attempts' = Append(attempts, Attempt("lrclib", "usable", n, -1))
                  ELSE /\ pc' = "petitlyrics"
                       /\ lrclib_rec' = r.rec
                       /\ attempts' = Append(attempts, Attempt("lrclib", "unusable", n, -1))
                       /\ UNCHANGED chosen_source
       ELSE /\ pc' = "petitlyrics"
            /\ UNCHANGED <<chosen_source, lrclib_rec, attempts>>
    /\ UNCHANGED <<artist, title, video_id, y_lyrics, youtube_lyrics, youtube_info,
                   petit_lyrics, petit_meta, utaten_lyrics, utaten_meta, rendered,
                   posted>>
    /\ UNCHANGED fnVars

\* 3) PetitLyrics
Step3_PetitLyrics ==
    /\ pc = "petitlyrics"
    /\ pc' = "utaten"
    /\ IF NeedPetitLyrics /\ HasArtistOrTitle
       THEN \E env \in PetitEnvs :
              LET r == fetch_petitlyrics(OrEmpty(title), OrEmpty(artist), env)
                  n == IF env.search = "ok" THEN Len(env.hits) ELSE -1
              IN  IF r.raised
                  THEN /\ attempts' = Append(attempts, Attempt("petitlyrics", "raised", n, -1))
                       /\ UNCHANGED <<chosen_source, petit_lyrics, petit_meta>>
                  ELSE /\ petit_lyrics' = r.lyrics
                       /\ petit_meta' = r.meta
                       /\ IF _looks_like_lyrics(r.lyrics)
                          THEN /\ chosen_source' = "petitlyrics"
                               /\ attempts' = Append(attempts,
                                                Attempt("petitlyrics", "usable", n, -1))
                          ELSE /\ attempts' = Append(attempts,
                                                Attempt("petitlyrics", "unusable", n, -1))
                               /\ UNCHANGED chosen_source
       ELSE UNCHANGED <<chosen_source, petit_lyrics, petit_meta, attempts>>
    /\ UNCHANGED <<artist, title, video_id, y_lyrics, youtube_lyrics, youtube_info,
                   lrclib_rec, utaten_lyrics, utaten_meta, rendered, posted>>
    /\ UNCHANGED fnVars

\* 4) UtaTen
Step4_UtaTen ==
    /\ pc = "utaten"
    /\ pc' = "report"
    /\ IF NeedUtaTen /\ HasArtistOrTitle
       THEN \E env \in UtaEnvs :
              LET r == fetch_utaten(OrEmpty(title), OrEmpty(artist), env)
                  n == IF env.search = "ok" THEN Len(env.hits) ELSE -1
                  x == IF r.extracted = None THEN -1 ELSE Len(r.extracted)
              IN  IF r.raised
                  THEN /\ attempts' = Append(attempts, Attempt("utaten", "raised", n, x))
                       /\ UNCHANGED <<chosen_source, utaten_lyrics, utaten_meta>>
                  ELSE /\ utaten_lyrics' = r.lyrics
                       /\ utaten_meta' = r.meta
                       /\ IF _looks_like_lyrics(r.lyrics)
                          THEN /\ chosen_source' = "utaten"
                               /\ attempts' = Append(attempts,
                                                Attempt("utaten", "usable", n, x))
                          ELSE /\ attempts' = Append(attempts,
                                                Attempt("utaten", "unusable", n, x))
                               /\ UNCHANGED chosen_source
       ELSE UNCHANGED <<chosen_source, utaten_lyrics, utaten_meta, attempts>>
    /\ UNCHANGED <<artist, title, video_id, y_lyrics, youtube_lyrics, youtube_info,
                   lrclib_rec, petit_lyrics, petit_meta, rendered, posted>>
    /\ UNCHANGED fnVars

\* The branch of build_comment_body that renders the result.
build_comment_body ==
    IF chosen_source = "youtube" /\ Truthy(youtube_lyrics) THEN "youtube"
    ELSE IF chosen_source = "lrclib" /\ ~RecFalsy(lrclib_rec) THEN "lrclib"
    ELSE IF chosen_source = "petitlyrics" /\ Truthy(petit_lyrics) THEN "petitlyrics"
    ELSE IF chosen_source = "utaten" /\ Truthy(utaten_lyrics) THEN "utaten"
    ELSE "failure"

PostReport ==
    /\ pc = "report"
    /\ pc' = "done"
    /\ rendered' = build_comment_body
    /\ posted' = TRUE
    /\ UNCHANGED <<artist, title, video_id, chosen_source, y_lyrics, youtube_lyrics,
                   youtube_info, lrclib_rec, petit_lyrics, petit_meta, utaten_lyrics,
                   utaten_meta, attempts>>
    /\ UNCHANGED fnVars

Next ==
    \/ Step1_YouTube
    \/ Step2_Lrclib
    \/ Step3_PetitLyrics
    \/ Step4_UtaTen
    \/ PostReport

Spec == Init /\ [][Next]_vars

----------------------------------------------------------------------------
(* Properties of the cascade *)

SourceOrder == <<"youtube", "lrclib", "petitlyrics", "utaten">>
Rank(src) == CHOOSE i \in 1..4 : SourceOrder[i] = src

Finished == pc \in {"report", "done"}
AttemptsOf(src) == {i \in 1..Len(attempts) : attempts[i].src = src}
Attempted(src) == AttemptsOf(src) # {}
Returned(src) ==
    \E i \in AttemptsOf(src) : attempts[i].outcome \in {"usable", "unusable"}

\* The result of a source passed its gate: the gate applied to what main
\* holds of the source's result.
Passed(src) ==
    /\ Returned(src)
    /\ CASE src = "youtube" -> _looks_like_lyrics(y_lyrics)
         [] src = "lrclib" -> _lrclib_has_lyrics(lrclib_rec)
         [] src = "petitlyrics" -> _looks_like_lyrics(petit_lyrics)
         [] src = "utaten" -> _looks_like_lyrics(utaten_lyrics)

PassedRanks == {i \in 1..4 : Passed(SourceOrder[i])}

\* C1: when the cascade finishes, chosen_source is the first source of the
\* order youtube, lrclib, petitlyrics, utaten whose returned result passed
\* its usability gate, and "none" exactly when no attempted source's result
\* passed.
C1_FirstUsableChosen ==
    Finished =>
        /\ (PassedRanks = {} <=> chosen_source = "none")
        /\ (PassedRanks # {} => chosen_source = SourceOrder[Min(PassedRanks)])

C1_Witness ==
    /\ pc = "done"
    /\ chosen_source = "petitlyrics"
    /\ Len(attempts) = 3
    /\ attempts[1].outcome = "raised"
    /\ attempts[2].outcome = "unusable"

\* C2: the adapters are called in the order youtube, lrclib, petitlyrics,
\* utaten, each at most once, and no adapter is called after a source's
\* result passed its gate: only the last call can be the usable one, and it
\* is the chosen source's.
C2_InvokedInOrderUntilChosen ==
    /\ \A i, j \in 1..Len(attempts) :
          i < j => Rank(attempts[i].src) < Rank(attempts[j].src)
    /\ \A i \in 1..Len(attempts) :
          attempts[i].outcome = "usable" =>
              /\ i = Len(attempts)
              /\ chosen_source = attempts[i].src
    /\ chosen_source # "none" =>
          /\ attempts # <<>>
          /\ attempts[Len(attempts)].src = chosen_source

C2_Witness ==
    /\ pc = "done"
    /\ chosen_source = "lrclib"
    /\ Len(attempts) = 2
    /\ attempts[1].src = "youtube"

\* C3: no failure raised while resolving a source leaves main: main never
\* ends with an adapter's exception.
C3_NoAdapterExceptionEscapes == pc # "crashed"

\* C4: the caption adapter is called only with a video id and the two
\* scrapers only with an artist or a title; without a video id the first
\* call is LRCLIB's; without artist and title LRCLIB sends no request; a
\* source that was skipped is never the chosen source.
C4_CalledOnlyWithInputs ==
    /\ Attempted("youtube") => Truthy(video_id)
    /\ Attempted("petitlyrics") \/ Attempted("utaten") =>
          Truthy(artist) \/ Truthy(title)
    /\ ~Truthy(video_id) /\ attempts # <<>> => attempts[1].src = "lrclib"
    /\ ~Truthy(artist) /\ ~Truthy(title) =>
          \A i \in AttemptsOf("lrclib") :
              attempts[i].n = -1 /\ attempts[i].outcome = "unusable"
    /\ chosen_source # "none" => Attempted(chosen_source)

C4_Witness ==
    /\ pc = "done"
    /\ ~Truthy(video_id)
    /\ Truthy(title)
    /\ Len(attempts) = 3
    /\ attempts[1].src = "lrclib"
    /\ chosen_source = "utaten"

IsLyricText(x) == x # None /\ x # NUM
IsEmptyOrAbsent(x) == x = None \/ x = <<>>
IsBlankText(x) == x = None \/ \A i \in 1..Len(x) : x[i] \in Whitespace
LrclibReturnedRecord == Returned("lrclib") /\ lrclib_rec.kind = "dict"
LaterAttempted == Attempted("petitlyrics") \/ Attempted("utaten")

\* C5 as stated: a returned record whose plainLyrics and syncedLyrics are
\* both empty or absent is unusable and the cascade goes on to Site-A; a
\* record with a non-empty synced or plain text is usable and ends the
\* cascade at LRCLIB.
C5_EmptyIffUnusable ==
    LrclibReturnedRecord =>
        /\ (IsEmptyOrAbsent(lrclib_rec.plainLyrics)
            /\ IsEmptyOrAbsent(lrclib_rec.syncedLyrics)) =>
              /\ chosen_source # "lrclib"
              /\ (pc \in {"utaten", "report", "done"} => Attempted("petitlyrics"))
        /\ ((IsLyricText(lrclib_rec.plainLyrics)
             /\ ~IsEmptyOrAbsent(lrclib_rec.plainLyrics))
            \/ (IsLyricText(lrclib_rec.syncedLyrics)
                /\ ~IsEmptyOrAbsent(lrclib_rec.syncedLyrics))) =>
              /\ chosen_source = "lrclib"
              /\ ~LaterAttempted

\* C5 amended: a returned record whose plainLyrics and syncedLyrics are both
\* absent, empty or made of whitespace only is unusable and the cascade goes
\* on to Site-A; a record with a synced or plain text that holds a character
\* other than whitespace is usable and ends the cascade at LRCLIB.
C5_BlankIffUnusable ==
    LrclibReturnedRecord =>
        /\ (IsBlankText(lrclib_rec.plainLyrics)
            /\ IsBlankText(lrclib_rec.syncedLyrics)) =>
              /\ chosen_source # "lrclib"
              /\ (pc \in {"utaten", "report", "done"} => Attempted("petitlyrics"))
        /\ ((IsLyricText(lrclib_rec.plainLyrics)
             /\ ~IsBlankText(lrclib_rec.plainLyrics))
            \/ (IsLyricText(lrclib_rec.syncedLyrics)
                /\ ~IsBlankText(lrclib_rec.syncedLyrics))) =>
              /\ chosen_source = "lrclib"
              /\ ~LaterAttempted

C5_Witness ==
    /\ pc = "done"
    /\ LrclibReturnedRecord
    /\ lrclib_rec.plainLyrics = <<SP>>
    /\ lrclib_rec.syncedLyrics = <<>>
    /\ Attempted("petitlyrics")
    /\ chosen_source # "lrclib"

\* The number of non-empty lines of a text: the places where a line starts
\* with a character.
NonEmptyLineCount(text) ==
    Cardinality({i \in 1..Len(text) :
                    text[i] # NL /\ (i = 1 \/ text[i - 1] = NL)})

ResultOf(src) ==
    CASE src = "youtube" -> y_lyrics
      [] src = "petitlyrics" -> petit_lyrics
      [] src = "utaten" -> utaten_lyrics

\* C6: the gate accepts the text a caption or scraper adapter returned if
\* and only if the text has at least 2 non-empty lines and at least 20
\* characters, and a source whose text the gate rejected is not the chosen
\* source.
C6_GateIffTwoLinesTwentyChars ==
    \A i \in 1..Len(attempts) :
        LET a == attempts[i] IN
        (a.src # "lrclib" /\ a.outcome \in {"usable", "unusable"}) =>
            /\ a.outcome = "usable" <=>
                  /\ NonEmptyLineCount(ResultOf(a.src)) >= 2
                  /\ Len(ResultOf(a.src)) >= 20
            /\ a.outcome = "unusable" => chosen_source # a.src

C6_Witness ==
    /\ pc = "done"
    /\ \E i \in 1..Len(attempts) :
          /\ attempts[i].src = "petitlyrics"
          /\ attempts[i].outcome = "unusable"
    /\ Len(petit_lyrics) = 25
    /\ chosen_source = "utaten"

OutcomeOf(src) == attempts[CHOOSE i \in AttemptsOf(src) : TRUE].outcome
HitCountOf(src) == attempts[CHOOSE i \in AttemptsOf(src) : TRUE].n

\* Artist and title but no video id; LRCLIB answered an empty list; Site-A's
\* search gave one hit, matching title and artist, whose page extracted to
\* 25 characters.
C7_SiteAScenario ==
    /\ ~Truthy(video_id) /\ Truthy(artist) /\ Truthy(title)
    /\ Attempted("lrclib") /\ HitCountOf("lrclib") = 0
    /\ Returned("petitlyrics") /\ HitCountOf("petitlyrics") = 1
    /\ _normalize_key(petit_meta.title) = _normalize_key(title)
    /\ _normalize_key(petit_meta.artist) = _normalize_key(artist)
    /\ Len(petit_lyrics) = 25

C7_SiteBSucceeds == Returned("utaten") /\ Len(utaten_lyrics) >= 50

C7_Outcome ==
    /\ chosen_source = "utaten"
    /\ Len(attempts) = 3
    /\ attempts[1].src = "lrclib" /\ lrclib_rec = NoneRec
    /\ attempts[2].src = "petitlyrics" /\ attempts[2].outcome = "unusable"
    /\ attempts[3].src = "utaten" /\ attempts[3].outcome = "usable"
    /\ Truthy(utaten_lyrics)

\* C7 as stated: in that scenario the Site-A result is unusable and, when
\* Site-B succeeds with at least 50 characters, the chosen source is utaten
\* and the outcome has the three entries LRCLIB null, Site-A unusable,
\* Site-B the result.
C7_EndToEnd ==
    /\ C7_SiteAScenario =>
          OutcomeOf("petitlyrics") = "unusable" /\ chosen_source # "petitlyrics"
    /\ (pc = "done" /\ C7_SiteAScenario /\ C7_SiteBSucceeds) => C7_Outcome

\* C7 amended: the same, where the 25 characters Site-A extracted are a
\* single line and the text Site-B returned has at least 2 non-empty lines.
C7_EndToEndByLines ==
    /\ (C7_SiteAScenario /\ NonEmptyLineCount(petit_lyrics) < 2) =>
          OutcomeOf("petitlyrics") = "unusable" /\ chosen_source # "petitlyrics"
    /\ (/\ pc = "done"
        /\ C7_SiteAScenario /\ NonEmptyLineCount(petit_lyrics) < 2
        /\ C7_SiteBSucceeds /\ NonEmptyLineCount(utaten_lyrics) >= 2) => C7_Outcome

C7_Witness ==
    /\ pc = "done"
    /\ C7_SiteAScenario /\ NonEmptyLineCount(petit_lyrics) < 2
    /\ C7_SiteBSucceeds /\ NonEmptyLineCount(utaten_lyrics) >= 2
    /\ C7_Outcome

\* C12: a caption track without a candidate lyric line makes the caption
\* adapter fail: whenever register_lyrics_from_request returned to main, the
\* lyric text it returned is not empty.
C12_NoEmptyCaptionText ==
    \A i \in AttemptsOf("youtube") :
        attempts[i].outcome \in {"usable", "unusable"} => y_lyrics # <<>>

\* C13: fetch_utaten never returns a text that is empty or shorter than 50
\* characters: when the text extracted from the page is that short the call
\* raises, main records a failure for Site-B, keeps no Site-B text and does
\* not choose utaten.
C13_UtatenNeverReturnsShortText ==
    \A i \in AttemptsOf("utaten") :
        LET a == attempts[i] IN
        /\ a.outcome \in {"usable", "unusable"} =>
              /\ utaten_lyrics # None
              /\ Len(utaten_lyrics) >= 50
              /\ a.len = Len(utaten_lyrics)
        /\ (a.len >= 0 /\ a.len < 50) => a.outcome = "raised"
        /\ a.outcome = "raised" =>
              chosen_source # "utaten" /\ utaten_lyrics = None

C13_Witness ==
    /\ pc = "done"
    /\ \E i \in AttemptsOf("utaten") :
          attempts[i].len = 49 /\ attempts[i].outcome = "raised"
    /\ chosen_source = "none"
    /\ rendered = "failure"

\* The result variable of the chosen source holds a result that passes the
\* source's gate.
ChosenResultUsable ==
    CASE chosen_source = "youtube" ->
            youtube_lyrics # None /\ _looks_like_lyrics(youtube_lyrics)
      [] chosen_source = "lrclib" ->
            ~IsNoneRec(lrclib_rec) /\ _lrclib_has_lyrics(lrclib_rec)
      [] chosen_source = "petitlyrics" ->
            petit_lyrics # None /\ _looks_like_lyrics(petit_lyrics)
      [] chosen_source = "utaten" ->
            utaten_lyrics # None /\ _looks_like_lyrics(utaten_lyrics)
      [] OTHER -> FALSE

ReportMatchesChosen ==
    /\ (Finished /\ chosen_source # "none") => ChosenResultUsable
    /\ pc = "done" =>
          rendered = (IF chosen_source = "none" THEN "failure" ELSE chosen_source)

ChosenSourceKept == chosen_source # "none" => chosen_source' = chosen_source

\* C18: when the cascade has run, a chosen source other than "none" has its
\* result variable set to a result that passed the gate, and the report
\* renders that source's branch, never the failure branch; and once
\* chosen_source is set to a source no later step changes it.
C18_ChosenResultReported == []ReportMatchesChosen /\ [][ChosenSourceKept]_vars

C18_Witness ==
    /\ pc = "done"
    /\ chosen_source = "youtube"
    /\ Len(attempts) = 1
    /\ Truthy(youtube_lyrics)
    /\ rendered = "youtube"

----------------------------------------------------------------------------
(* Single calls of the disambiguators and of the LRCLIB adapter *)

FnHitTitles == {<<"a", "b">>, <<"A", "-", "b">>, <<"z", "z", "z">>}
FnHitArtists == {None, <<"x">>, <<"x", SP, "f">>}
FnReqTitles == {<<>>, <<"a", "b">>, <<"A", SP, "b">>}
FnReqArtists == {<<>>, <<"X", "!">>}

\* pl.parse_search_results keeps one hit per lyrics_id.
DistinctIds(hits) ==
    \A i, j \in 1..Len(hits) : i # j => hits[i].lyrics_id # hits[j].lyrics_id

FnPlHitLists ==
    {hs \in SeqsUpTo({PlHit(id, t, a) : id \in 1..MaxHits, t \in FnHitTitles,
                                        a \in FnHitArtists}, MaxHits) :
        DistinctIds(hs)}

\* uta.parse_search_results keeps one hit per url: the url is the hit's
\* place in the page.
FnUtaHitLists ==
    {[i \in 1..Len(q) |-> UtaHit(i, q[i][1], q[i][2])] :
        q \in SeqsUpTo(FnHitTitles \X FnHitArtists, MaxHits)}

FnRecs ==
    {[kind |-> "dict", trackName |-> tn, artistName |-> an,
      plainLyrics |-> None, syncedLyrics |-> None] :
        tn \in {None, <<"a", "b">>, <<"x", "y">>, <<"a", "b", "c">>},
        an \in {None, <<"x">>, <<"x", "x">>}}

FnResponses ==
    {[kind |-> k, data |-> <<>>] : k \in {"error", "notlist"}}
    \cup {[kind |-> "list", data |-> d] : d \in SeqsUpTo(FnRecs \cup {StrRec}, MaxRecs)}

\* A time-range line of a subtitle block, and the track of three blocks
\* whose texts are Hello, Hello, World.
TimeLine(a, b) ==
    <<"0", "0", ":", "0", a, ",", "0">> \o <<SP>> \o ARROW \o <<SP>>
    \o <<"0", "0", ":", "0", b, ",", "0">>
Hello == <<"H", "e", "l", "l", "o">>
World == <<"W", "o", "r", "l", "d">>
ExampleSrt ==
    << <<"1">>, TimeLine("1", "2"), Hello, <<>>,
       <<"2">>, TimeLine("2", "3"), Hello, <<>>,
       <<"3">>, TimeLine("3", "0"), World >>

FnSrtFiles == SrtFiles \cup {ExampleSrt}

\* Tokens of a Site-B line: with and without ideographs, kana of 1, 2, 12
\* and 13 characters, letters, and mixtures.
FnTokens ==
    { <<"[jin]">>, <<"[satsu]", "<shi>">>, <<"<wo>">>, <<"<ko>", "<ro>">>,
      Rep("<ta>", 12), Rep("<ta>", 13), <<"w", "o">>, <<"a", "1">>,
      <<"<n>", "a">>, <<"a", "[ka]">> }

\* The line of the docstring of clean_line_drop_furigana_romaji.
ExampleLine ==
    <<"[saku]", "[jitsu]", "[jin]", SP, "<ki>", "<no>", "<u>", "<hi>", "<to>", SP,
      "<wo>", SP, "[satsu]", SP, "<ko>", "<ro>", SP, "<shi>", "<ta>", "<n>", "<da>">>
ExampleCleaned ==
    <<"[saku]", "[jitsu]", "[jin]", "<wo>", "[satsu]", "<shi>", "<ta>", "<n>", "<da>">>

\* Lines: tokens separated by one space, or by several whitespace
\* characters with whitespace around.
FnLines ==
    {join(<<SP>>, ts) : ts \in SeqsUpTo(FnTokens, MaxToks)}
    \cup {<<SP>> \o join(<<IDSP, SP>>, ts) \o <<SP>> : ts \in SeqsUpTo(FnTokens, MaxToks)}
    \cup {ExampleLine}

\* Lines of a Site-B page: empty, a junk label, four runs of three letters
\* (alone and after kana), three runs of one letter and one of nine, three
\* runs of four letters, four runs of two letters, kana, an ideograph with
\* its furigana, and a digit.
FnPageLines ==
    { <<>>, <<"[ka]", "[shi]">>, HeavyLine, <<"<ta>", SP>> \o HeavyLine,
      <<"a", SP, "b", SP, "c", SP>> \o Rep("d", 9),
      <<"a", "b", "c", "d", SP, "a", "b", "c", "d", SP, "a", "b", "c", "d">>,
      <<"a", "b", SP, "a", "b", SP, "a", "b", SP, "a", "b", SP, "<n>">>,
      <<"<shi>", "<ta>", "<n>", "<da>">>,
      <<"[satsu]", SP, "<ko>", "<ro>", SP, "<shi>", "<ta>">>,
      <<"1">> }

FnUtaPages ==
    {NoUtaPage}
    \cup {[start |-> TRUE, lines |-> ls] : ls \in SeqsUpTo(FnPageLines, MaxPageLines)}

\* The strings handed to the normalizer: absent, or up to MaxKeyLen
\* characters among whitespace, punctuation and letters of both cases.
FnKeyChars == {SP, IDSP, NL, "-", "!", "A", "a", "x"}
FnKeys == {None} \cup SeqsUpTo(FnKeyChars, MaxKeyLen)

\* The functions called on their own, and the calls of each.
FnNames ==
    {"choose_best_hit",
     "choose_one",
     "search_lrclib_by_artist_title",
     "_srt_to_lyrics",
     "clean_line_drop_furigana_romaji",
     "extract_lyrics_only",
     "_normalize_key"}

FnCallsOf(fn) ==
    CASE fn = "choose_best_hit" ->
            {[IdleCall EXCEPT !.fn = fn, !.plHits = hs, !.req_title = t,
                              !.req_artist = a] :
                hs \in FnPlHitLists, t \in FnReqTitles, a \in FnReqArtists}
      [] fn = "choose_one" ->
            {[IdleCall EXCEPT !.fn = fn, !.utaHits = hs, !.req_title = t,
                              !.req_artist = a] :
                hs \in FnUtaHitLists, t \in FnReqTitles, a \in FnReqArtists}
      [] fn = "search_lrclib_by_artist_title" ->
            {[IdleCall EXCEPT !.fn = fn, !.resp = r, !.req_title = t,
                              !.req_artist = a] :
                r \in FnResponses, t \in {None, ReqTitle}, a \in {None, ReqArtist}}
      [] fn = "_srt_to_lyrics" ->
            {[IdleCall EXCEPT !.fn = fn, !.file = f] : f \in FnSrtFiles}
      [] fn = "clean_line_drop_furigana_romaji" ->
            {[IdleCall EXCEPT !.fn = fn, !.line = ln] : ln \in FnLines}
      [] fn = "extract_lyrics_only" ->
            {[IdleCall EXCEPT !.fn = fn, !.page = pg] : pg \in FnUtaPages}
      [] fn = "_normalize_key" ->
            {[IdleCall EXCEPT !.fn = fn, !.s = k] : k \in FnKeys}

FnInit ==
    /\ \E fn \in FnNames : call \in FnCallsOf(fn)
    /\ ret = IdleRet
    /\ artist = None /\ title = None /\ video_id = None
    /\ pc = "fn"
    /\ chosen_source = "none"
    /\ y_lyrics = None
    /\ youtube_lyrics = None /\ youtube_info = None
    /\ lrclib_rec = NoneRec
    /\ petit_lyrics = None /\ petit_meta = NoneHit
    /\ utaten_lyrics = None /\ utaten_meta = NoneUtaHit
    /\ attempts = <<>>
    /\ rendered = "nothing" /\ posted = FALSE

Call_choose_best_hit ==
    /\ call.fn = "choose_best_hit" /\ ~ret.done
    /\ ret' = [ret EXCEPT !.done = TRUE,
                          !.plHit = choose_best_hit(call.plHits, call.req_title,
                                                    call.req_artist)]
    /\ UNCHANGED <<call, mainVars>>

Call_choose_one ==
    /\ call.fn = "choose_one" /\ ~ret.done
    /\ ret' = [ret EXCEPT !.done = TRUE,
                          !.utaHit = choose_one(call.utaHits, call.req_title,
                                                call.req_artist)]
    /\ UNCHANGED <<call, mainVars>>

Call_search_lrclib ==
    /\ call.fn = "search_lrclib_by_artist_title" /\ ~ret.done
    /\ LET r == search_lrclib_by_artist_title(call.req_artist, call.req_title,
                                              call.resp)
       IN  ret' = [ret EXCEPT !.done = TRUE, !.raised = r.raised, !.rec = r.rec]
    /\ UNCHANGED <<call, mainVars>>

Call_srt_to_lyrics ==
    /\ call.fn = "_srt_to_lyrics" /\ ~ret.done
    /\ ret' = [ret EXCEPT !.done = TRUE, !.text = _srt_to_lyrics(call.file)]
    /\ UNCHANGED <<call, mainVars>>

\* clean_line_drop_furigana_romaji, one token of its loop at a time.
CleanLine_Token ==
    /\ call.fn = "clean_line_drop_furigana_romaji" /\ ~ret.done
    /\ ret.scanned < Len(cleanToks(call.line))
    /\ LET st == cleanStep([out |-> ret.out, prev_has_kanji |-> ret.prev_has_kanji],
                           cleanToks(call.line)[ret.scanned + 1])
       IN  ret' = [ret EXCEPT !.scanned = @ + 1, !.out = st.out,
                              !.prev_has_kanji = st.prev_has_kanji]
    /\ UNCHANGED <<call, mainVars>>

CleanLine_Return ==
    /\ call.fn = "clean_line_drop_furigana_romaji" /\ ~ret.done
    /\ ret.scanned = Len(cleanToks(call.line))
    /\ ret' = [ret EXCEPT !.done = TRUE, !.text = strip(concat(ret.out))]
    /\ UNCHANGED <<call, mainVars>>

Call_extract_lyrics_only ==
    /\ call.fn = "extract_lyrics_only" /\ ~ret.done
    /\ ret' = [ret EXCEPT !.done = TRUE, !.text = extract_lyrics_only(call.page)]
    /\ UNCHANGED <<call, mainVars>>

Call_normalize_key ==
    /\ call.fn = "_normalize_key" /\ ~ret.done
    /\ ret' = [ret EXCEPT !.done = TRUE, !.text = _normalize_key(call.s)]
    /\ UNCHANGED <<call, mainVars>>

FnNext ==
    \/ Call_choose_best_hit
    \/ Call_choose_one
    \/ Call_search_lrclib
    \/ Call_srt_to_lyrics
    \/ CleanLine_Token
    \/ CleanLine_Return
    \/ Call_extract_lyrics_only
    \/ Call_normalize_key

SpecFn == FnInit /\ [][FnNext]_vars

----------------------------------------------------------------------------
(* Properties of the disambiguators and of the LRCLIB selection *)

IsChooseCall == call.fn \in {"choose_best_hit", "choose_one"}
CallHits == IF call.fn = "choose_best_hit" THEN call.plHits ELSE call.utaHits
CallNt == _normalize_key(call.req_title)
CallNa == _normalize_key(call.req_artist)

TitleMatches(h) == _normalize_key(h.title) = CallNt

\* Site-A compares the artists for equality, Site-B for containment.
ArtistMatches(h) ==
    IF call.fn = "choose_best_hit"
    THEN _normalize_key(h.artist) = CallNa
    ELSE Contains(_normalize_key(h.artist), CallNa)

\* The exact-match subset: the title matches, and the artist when one was
\* requested.
InTitleArtistMatch(h) == TitleMatches(h) /\ (CallNa # <<>> => ArtistMatches(h))

\* The same, where the title is compared only when one was requested.
InExactMatch(h) ==
    (CallNt # <<>> => TitleMatches(h)) /\ (CallNa # <<>> => ArtistMatches(h))

ChosenIsNone ==
    IF call.fn = "choose_best_hit" THEN ret.plHit = NoneHit
    ELSE ret.utaHit = NoneUtaHit

ChosenSatisfies(P(_)) ==
    IF call.fn = "choose_best_hit" THEN P(ret.plHit) ELSE P(ret.utaHit)

\* C8 as stated: the result is null for an empty hit list, and whenever some
\* hit's normalized title equals the requested normalized title the chosen
\* hit matches the title, and the artist when one was requested.
C8_ChosenFromTitleMatches ==
    (IsChooseCall /\ ret.done) =>
        /\ CallHits = <<>> => ChosenIsNone
        /\ (\E i \in 1..Len(CallHits) : TitleMatches(CallHits[i])) =>
              ChosenSatisfies(InTitleArtistMatch)

\* C8 amended: the result is null for an empty hit list, and whenever some
\* hit matches both the requested title and the requested artist (each
\* compared only when requested) the chosen hit is such a hit.
C8_ChosenFromExactMatches ==
    (IsChooseCall /\ ret.done) =>
        /\ CallHits = <<>> => ChosenIsNone
        /\ (\E i \in 1..Len(CallHits) : InExactMatch(CallHits[i])) =>
              /\ ~ChosenIsNone
              /\ ChosenSatisfies(InExactMatch)

C8_Witness ==
    /\ call.fn = "choose_best_hit" /\ ret.done
    /\ Len(call.plHits) = 2
    /\ CallNt # <<>> /\ CallNa # <<>>
    /\ ~InExactMatch(call.plHits[1]) /\ InExactMatch(call.plHits[2])
    /\ call.plHits[1].lyrics_id > call.plHits[2].lyrics_id
    /\ ret.plHit = call.plHits[2]

LenDiffScore(req, cand) == 2 * (100 - Abs(Len(req) - Len(_normalize_key(cand))))
UtaScore(h) == LenDiffScore(CallNt, h.title) + LenDiffScore(CallNa, h.artist)

UtaEligible ==
    LET exact == {i \in 1..Len(call.utaHits) : InExactMatch(call.utaHits[i])}
    IN  IF exact # {} THEN exact ELSE 1..Len(call.utaHits)

\* C9 as stated: Site-B's disambiguator returns the eligible hit of the
\* greatest length-similarity score, the first of them in input order.
C9_UtaChoosesBestScore ==
    (call.fn = "choose_one" /\ ret.done /\ call.utaHits # <<>>) =>
        \E i \in UtaEligible :
            /\ ret.utaHit = call.utaHits[i]
            /\ \A j \in UtaEligible : UtaScore(call.utaHits[j]) <= UtaScore(call.utaHits[i])
            /\ \A j \in UtaEligible :
                  j < i => UtaScore(call.utaHits[j]) < UtaScore(call.utaHits[i])

\* C9 amended: Site-B's disambiguator uses no score: it returns the first
\* eligible hit in input order.
C9_UtaChoosesFirstEligible ==
    (call.fn = "choose_one" /\ ret.done /\ call.utaHits # <<>>) =>
        ret.utaHit = call.utaHits[Min(UtaEligible)]

C9_Witness ==
    /\ call.fn = "choose_one" /\ ret.done
    /\ Len(call.utaHits) = 2
    /\ UtaEligible = {1, 2}
    /\ UtaScore(call.utaHits[2]) > UtaScore(call.utaHits[1])
    /\ ret.utaHit = call.utaHits[1]

IsSelectCall ==
    /\ call.fn = "search_lrclib_by_artist_title" /\ ret.done /\ ~ret.raised
    /\ call.resp.kind = "list" /\ call.resp.data # <<>>
    /\ (Truthy(call.req_title) \/ Truthy(call.req_artist))

NameMatchesExactly(rec) ==
    /\ Truthy(call.req_title) => rec.trackName = call.req_title
    /\ Truthy(call.req_artist) => rec.artistName = call.req_artist

RecScore(rec) == score(call.req_artist, call.req_title, rec)

\* C10 as stated: a record whose names match the requested names exactly is
\* selected whenever there is one, and the first record otherwise.
C10_SelectsExactElseFirst ==
    IsSelectCall =>
        IF \E i \in 1..Len(call.resp.data) : NameMatchesExactly(call.resp.data[i])
        THEN NameMatchesExactly(ret.rec)
        ELSE ret.rec = call.resp.data[1]

\* C10 amended: the adapter selects the record of the greatest
\* length-similarity score 2*(100 - |len(requested) - len(record's name)|),
\* summed over track and artist name, and the first of them in list order;
\* names are not compared.
C10_SelectsFirstBestScore ==
    IsSelectCall =>
        \E i \in 1..Len(call.resp.data) :
            /\ ret.rec = call.resp.data[i]
            /\ \A j \in 1..Len(call.resp.data) :
                  RecScore(call.resp.data[j]) <= RecScore(call.resp.data[i])
            /\ \A j \in 1..(i - 1) :
                  RecScore(call.resp.data[j]) < RecScore(call.resp.data[i])

C10_Witness ==
    /\ IsSelectCall
    /\ Len(call.resp.data) = 2
    /\ ~NameMatchesExactly(call.resp.data[1])
    /\ NameMatchesExactly(call.resp.data[2])
    /\ RecScore(call.resp.data[1]) = RecScore(call.resp.data[2])
    /\ ret.rec = call.resp.data[1]

----------------------------------------------------------------------------
(* Properties of the caption cleaner *)

IsSrtCall == call.fn = "_srt_to_lyrics" /\ ret.done

\* The n-th smallest element of a set of line numbers, and the lines of a
\* track at the line numbers of S, in order.
Nth(S, n) == CHOOSE i \in S : Cardinality({j \in S : j <= i}) = n
LinesAt(ls, S) == [n \in 1..Cardinality(S) |-> ls[Nth(S, n)]]

\* Of the lines ls: those that are not empty, not purely numeric and without
\* the arrow, less each one equal to the candidate before it.
Candidates(ls) ==
    {i \in 1..Len(ls) : ls[i] # <<>> /\ ~isdigit(ls[i]) /\ ~Contains(ls[i], ARROW)}
Survivors(ls) ==
    {i \in Candidates(ls) :
        LET before == {j \in Candidates(ls) : j < i}
        IN  before = {} \/ ls[Max(before)] # ls[i]}

OutputIsClean ==
    LET out == splitlines(ret.text) IN
    /\ \A i \in 1..Len(out) :
          out[i] # <<>> /\ ~isdigit(out[i]) /\ ~Contains(out[i], ARROW)
    /\ \A i \in 1..(Len(out) - 1) : out[i] # out[i + 1]

TrimmedLines(file) == [i \in 1..Len(file) |-> strip(file[i])]

\* C11 as stated: the output is the input's lines, in order, without the
\* empty, purely numeric and arrow lines and without every line equal to the
\* kept line before it; it holds no empty, numeric or arrow line and no two
\* equal adjacent lines.
C11_OutputIsFilteredLines ==
    IsSrtCall =>
        /\ ret.text = join(<<NL>>, LinesAt(call.file, Survivors(call.file)))
        /\ OutputIsClean

\* C11 amended: the same of the input's lines trimmed of their surrounding
\* whitespace: a line of whitespace only counts as empty, and lines are
\* compared and kept trimmed.
C11_OutputIsFilteredTrimmedLines ==
    IsSrtCall =>
        /\ ret.text = join(<<NL>>, LinesAt(TrimmedLines(call.file),
                                           Survivors(TrimmedLines(call.file))))
        /\ OutputIsClean

C11_Witness ==
    /\ IsSrtCall
    /\ call.file = ExampleSrt
    /\ ret.text = Hello \o <<NL>> \o World

----------------------------------------------------------------------------
(* Properties of Site-B's line cleaning *)

IsCleanCall == call.fn = "clean_line_drop_furigana_romaji"

\* The tokens of a line: its longest pieces without whitespace, in order.
WordStarts(line) ==
    {i \in 1..Len(line) :
        line[i] \notin Whitespace /\ (i = 1 \/ line[i - 1] \in Whitespace)}
WordFrom(line, i) ==
    SubSeq(line, i, Min({j \in i..Len(line) :
                            j = Len(line) \/ line[j + 1] \in Whitespace}))
Words(line) ==
    [n \in 1..Cardinality(WordStarts(line)) |-> WordFrom(line, Nth(WordStarts(line), n))]

OnlyLetters(w) == \A i \in 1..Len(w) : w[i] \in Latin
OnlyKana(w) == \A i \in 1..Len(w) : w[i] \in Kana
HasIdeograph(w) == \E i \in 1..Len(w) : w[i] \in Kanji

\* The k-th token of ws is kept.
KeptToken(ws, k) ==
    /\ ~OnlyLetters(ws[k])
    /\ ~(OnlyKana(ws[k]) /\ Len(ws[k]) <= 12 /\ k > 1 /\ HasIdeograph(ws[k - 1]))

\* C14: of the tokens of a line, a token of letters only is dropped, a
\* kana-only token of at most 12 characters is dropped exactly when the token
\* immediately before it contains an ideograph, every other token is kept,
\* and the result is the kept tokens in order without separators.
C14_CleanedIsKeptTokens ==
    (IsCleanCall /\ ret.done) =>
        LET ws == Words(call.line)
        IN  ret.text = concat(LinesAt(ws, {k \in 1..Len(ws) : KeptToken(ws, k)}))

C14_Witness ==
    /\ IsCleanCall /\ ret.done
    /\ call.line = ExampleLine
    /\ ret.text = ExampleCleaned

\* The tokens the scan has taken, and the token it took last.
ScannedToks == SubSeq(cleanToks(call.line), 1, ret.scanned)

\* C15 as stated: at every step of the scan the flag says whether the most
\* recently kept token of the line contains an ideograph, whatever tokens
\* were dropped since.
C15_FlagFollowsLastKept ==
    IsCleanCall =>
        (ret.prev_has_kanji <=>
            (ret.out # <<>> /\ HasIdeograph(ret.out[Len(ret.out)])))

\* C15 amended: at every step of the scan the flag says whether the token
\* scanned last was kept and contains an ideograph: a dropped token (a latin
\* gloss or a furigana) resets the flag.
C15_FlagFollowsLastScanned ==
    IsCleanCall =>
        (ret.prev_has_kanji <=>
            /\ ret.scanned > 0
            /\ HasIdeograph(ScannedToks[ret.scanned])
            /\ ret.out # <<>>
            /\ ret.out[Len(ret.out)] = ScannedToks[ret.scanned])

C15_Witness ==
    /\ IsCleanCall /\ ~ret.done
    /\ ret.scanned = 2 /\ Len(cleanToks(call.line)) = 3
    /\ HasIdeograph(ScannedToks[1])
    /\ OnlyLetters(ScannedToks[2])
    /\ ret.out = <<ScannedToks[1]>>
    /\ ~ret.prev_has_kanji

----------------------------------------------------------------------------
(* Properties of Site-B's extraction *)

IsExtractCall == call.fn = "extract_lyrics_only" /\ ret.done /\ call.page.start

\* The runs of letters of a line: where each starts, and its length.
RunStarts(line) ==
    {i \in 1..Len(line) : line[i] \in Latin /\ (i = 1 \/ line[i - 1] \notin Latin)}
RunLen(line, i) ==
    1 + Min({j \in i..Len(line) : j = Len(line) \/ line[j + 1] \notin Latin}) - i
RunTotal(line, starts) ==
    Cardinality({j \in 1..Len(line) :
                    \E i \in starts : i <= j /\ j < i + RunLen(line, i)})

\* 4 or more runs of letters, of at least 12 letters in all.
HeavyByRuns(line) ==
    /\ Cardinality(RunStarts(line)) >= 4
    /\ RunTotal(line, RunStarts(line)) >= 12

\* The same, counting only the runs of two or more letters.
HeavyByLongRuns(line) ==
    LET long == {i \in RunStarts(line) : RunLen(line, i) >= 2}
    IN  Cardinality(long) >= 4 /\ RunTotal(line, long) >= 12

\* The page cut before its line h.
PageBefore(h) == [start |-> TRUE, lines |-> SubSeq(call.page.lines, 1, h - 1)]

\* C16 as stated: a line with 4 or more runs of letters of at least 12
\* letters in all halts the extraction: the output is that of the page cut
\* before the line, whatever the line and the lines after it hold.
C16_HeavyLineHaltsExtraction ==
    IsExtractCall =>
        \A h \in 1..Len(call.page.lines) :
            HeavyByRuns(call.page.lines[h]) =>
                ret.text = extract_lyrics_only(PageBefore(h))

\* C16 amended: the same, where only runs of two or more letters count.
C16_LongRunsLineHaltsExtraction ==
    IsExtractCall =>
        \A h \in 1..Len(call.page.lines) :
            HeavyByLongRuns(call.page.lines[h]) =>
                ret.text = extract_lyrics_only(PageBefore(h))

C16_Witness ==
    /\ IsExtractCall
    /\ Len(call.page.lines) = 3
    /\ call.page.lines[1] = <<"<shi>", "<ta>", "<n>", "<da>">>
    /\ HeavyByLongRuns(call.page.lines[2])
    /\ call.page.lines[3] = <<"<shi>", "<ta>", "<n>", "<da>">>
    /\ ret.text = <<"<shi>", "<ta>", "<n>", "<da>">>

----------------------------------------------------------------------------
(* Properties of the text normalizer *)

IsNormalizeCall == call.fn = "_normalize_key" /\ ret.done

\* C17: normalizing a normalized string changes nothing, and an absent or
\* empty input gives the empty string without an error.
C17_NormalizeIdempotent ==
    IsNormalizeCall =>
        /\ _normalize_key(ret.text) = ret.text
        /\ (call.s = None \/ call.s = <<>>) => (ret.text = <<>> /\ ~ret.raised)

C17_Witness ==
    /\ IsNormalizeCall
    /\ call.s = <<"-", SP, "A">>
    /\ ret.text = <<"a">>

====
